---- MODULE Spec2Model ----
\* Parsing and structural verification of the Btor dialect operations
\* (lib/Dialect/Btor/IR/BtorOps.cpp).  One operation is constructed, either
\* from its textual form by one of the custom parsers or programmatically by
\* a builder, and is then handed to the verifier of its kind.
EXTENDS Integers, Naturals, Sequences, FiniteSets, TLC

\* ------------------------------------------------------------------ bounds
MaxWidth == 3
MaxLen == 4
MaxId == 1
MaxFolds == 2

\* ------------------------------------------------------------------- types
\* Every type is a record [k, width, shape]:
\*   bv     : !btor.bv<width>
\*   int/ui : builtin signless / unsigned integer of `width` bits
\*   array  : !btor.array<bv<shape[1]>, bv<width>>
\*   vector : vector<shape x i(width)>
\*   memref : memref<shape x i(width)>
\*   undef  : an SSA name that has no definition yet (a forward reference)
BitVecType(w) == [k |-> "bv", width |-> w, shape |-> <<>>]

IntegerType(w) == [k |-> "int", width |-> w, shape |-> <<>>]

UnsignedType(w) == [k |-> "ui", width |-> w, shape |-> <<>>]

ArrayType(iw, ew) == [k |-> "array", width |-> ew, shape |-> <<iw>>]

VectorType(sh, ew) == [k |-> "vector", width |-> ew, shape |-> sh]

MemRefType(sh, ew) == [k |-> "memref", width |-> ew, shape |-> sh]

Undef == [k |-> "undef", width |-> 0, shape |-> <<>>]

\* A number streamed into a diagnostic (as opposed to a type).
Num(n) == [k |-> "num", width |-> n, shape |-> <<>>]

\* getBVType(t).getWidth(), t.getIntOrFloatBitWidth()
getWidth(t) == t.width

\* ArrayType::getElement / ArrayType::getShape
getElement(t) == BitVecType(t.width)

getShape(t) == BitVecType(t.shape[1])

\* VectorType / MemRefType ::getElementType
getElementType(t) == IntegerType(t.width)

\* getElementTypeOrSelf: element type of a shaped builtin type, else the type
getElementTypeOrSelf(t) ==
    IF t.k \in {"vector", "memref"} THEN getElementType(t) ELSE t

\* The widths the model draws from: 1..MaxWidth and the widths 8 and 16.
Widths == (1 .. MaxWidth) \cup {8, 16}

IndexWidths == {1, 4}

BitVecTypes == {BitVecType(w) : w \in Widths}

IntegerTypes == {IntegerType(w) : w \in Widths}

ArrayTypes == {ArrayType(iw, ew) : iw \in IndexWidths, ew \in Widths}

\* vector types have positive static dimensions; rank 1 and one rank-2 shape
VectorShapes == {<<n>> : n \in 1 .. MaxLen} \cup {<<2, 2>>}

VectorTypes == {VectorType(sh, ew) : sh \in VectorShapes, ew \in Widths}

\* memref dimensions may also be 0 or dynamic (-1); rank 0 is allowed
MemRefShapes == {<<n>> : n \in -1 .. MaxLen} \cup {<<>>, <<2, 2>>}

MemRefTypes == {MemRefType(sh, ew) : sh \in MemRefShapes, ew \in Widths}

\* --------------------------------------------------------- bit arithmetic
RECURSIVE NatAnd(_, _)
NatAnd(a, b) ==
    IF a = 0 \/ b = 0 THEN 0
    ELSE 2 * NatAnd(a \div 2, b \div 2) + (IF a % 2 = 1 /\ b % 2 = 1 THEN 1 ELSE 0)

RECURSIVE NatOr(_, _)
NatOr(a, b) ==
    IF a = 0 THEN b
    ELSE IF b = 0 THEN a
    ELSE 2 * NatOr(a \div 2, b \div 2) + (IF a % 2 = 1 \/ b % 2 = 1 THEN 1 ELSE 0)

RECURSIVE NatAndNot(_, _)
\* a & ~b for naturals a, b
NatAndNot(a, b) ==
    IF a = 0 THEN 0
    ELSE 2 * NatAndNot(a \div 2, b \div 2) + (IF a % 2 = 1 /\ b % 2 = 0 THEN 1 ELSE 0)

\* x & y on two's-complement integers (int64_t in the source; no value of the
\* model comes near the width)
BitAnd(x, y) ==
    IF x >= 0 /\ y >= 0 THEN NatAnd(x, y)
    ELSE IF x >= 0 THEN NatAndNot(x, -y - 1)
    ELSE IF y >= 0 THEN NatAndNot(y, -x - 1)
    ELSE -NatOr(-x - 1, -y - 1) - 1

\* auto indicator = shape & (shape - 1);
indicator(shape) == BitAnd(shape, shape - 1)

\* ------------------------------------------------------------- operations
\* An operation: its kind, the types of its operands in order, the types of
\* its results, and its attribute dictionary.
Operation(name, operands, results, attrs) ==
    [name |-> name, operands |-> operands, results |-> results, attrs |-> attrs]

NoOp == Operation("none", <<>>, <<>>, {})

\* The text handed to a custom parser: for each operand of the operand list
\* the type its SSA name is already defined with (Undef for a forward
\* reference), the optional attribute dictionary, and the types after ':'.
Text(operands, attrs, types) ==
    [operands |-> operands, attrs |-> attrs, types |-> types]

NoText == Text(<<>>, {}, <<>>)

AttrDicts == {{}, {[name |-> "tag", value |-> 0]}}

DefTypes == BitVecTypes \cup {Undef}

OperandLists(lo, hi) == UNION {[1 .. n -> DefTypes] : n \in lo .. hi}

TypeLists(S, lo, hi) == UNION {[1 .. n -> S] : n \in lo .. hi}

\* ------------------------------------------------------------ diagnostics
\* op.emitOpError() << ... : the message is prefixed with the operation name;
\* op.emitError() << ...   : it is not.  args are the values streamed in.
Diag(opError, msg, args) == [opError |-> opError, msg |-> msg, args |-> args]

success == [ok |-> TRUE, diags |-> <<>>]

failure(d) == [ok |-> FALSE, diags |-> <<d>>]

VARIABLES text, op, parsed, verified, diags

\* The operation printed back to text and that text parsed again.
VARIABLES printed, reparsed, op2

\* What folding the operation returned, one entry per call.
VARIABLES folded

\* The program unit: its registered operations, the stage of the pipeline,
\* the next operation verification visits, whether verification has failed,
\* the diagnostics of the unit, and the lowering passes that have run.
VARIABLES unit, stage, vpc, unitFailed, unitDiags, lowered

roundTripVars == <<printed, reparsed, op2>>

unitVars == <<unit, stage, vpc, unitFailed, unitDiags, lowered>>

opVars == <<text, op, parsed, verified, diags>>

vars == <<text, op, parsed, verified, diags, printed, reparsed, op2, folded,
          unit, stage, vpc, unitFailed, unitDiags, lowered>>


\* -------------------------------------------------------------- accessors
\* The array type an array operation works on: the result type of an init
\* or write operation, the type of the base of a read operation.
getArrayType(o) ==
    IF o.name \in {"ReadOp", "VectorReadOp", "MemRefReadOp"}
    THEN o.operands[1]
    ELSE o.results[1]

\* ------------------------------------------------------------- verifiers
\* verifySliceOp with the comparison written <= : equal widths rejected
verifySliceOp_Strict(o) ==
    LET srcType == getElementTypeOrSelf(o.operands[1])
        dstType == getElementTypeOrSelf(o.results[1])
    IN  IF getWidth(srcType) <= getWidth(dstType)
        THEN failure(Diag(FALSE,
                 "result type <dst> must be smaller or equal to the operand type <src>",
                 <<dstType, srcType>>))
        ELSE success

\* verifySliceOp: the result may not be wider than the operand
verifySliceOp(o) ==
    LET srcType == getElementTypeOrSelf(o.operands[1])
        dstType == getElementTypeOrSelf(o.results[1])
    IN  IF getWidth(srcType) < getWidth(dstType)
        THEN failure(Diag(FALSE,
                 "result type <dst> must be smaller or equal to the operand type <src>",
                 <<dstType, srcType>>))
        ELSE success

\* verifyIteWriteInPlaceOp without the check of the condition
verifyIteWriteInPlaceOp_NoConditionCheck(o) ==
    LET valWidth == getWidth(o.operands[2])
    IN  IF getWidth(getElement(getArrayType(o))) # valWidth
        THEN failure(Diag(TRUE,
                 "element type of the array must match  bitwidth of return type: <n>",
                 <<Num(valWidth)>>))
        ELSE success

\* verifyIteWriteInPlaceOp: operands are condition, value, base, index
verifyIteWriteInPlaceOp(o) ==
    LET valWidth == getWidth(o.operands[2])
    IN  IF getWidth(getElement(getArrayType(o))) # valWidth
        THEN failure(Diag(TRUE,
                 "element type of the array must match  bitwidth of return type: <n>",
                 <<Num(valWidth)>>))
        ELSE IF getWidth(o.operands[1]) # 1
        THEN failure(Diag(FALSE, "condition needs to have width 1 (a boolean)", <<>>))
        ELSE success

\* verifyExtOp with the comparison written >= : equal widths rejected
verifyExtOp_Strict(o) ==
    LET srcType == getElementTypeOrSelf(o.operands[1])
        dstType == getElementTypeOrSelf(o.results[1])
    IN  IF getWidth(srcType) >= getWidth(dstType)
        THEN failure(Diag(FALSE,
                 "result type <dst> must be wider than operand type <src>",
                 <<dstType, srcType>>))
        ELSE success

\* verifyExtOp: the operand may not be wider than the result
verifyExtOp(o) ==
    LET srcType == getElementTypeOrSelf(o.operands[1])
        dstType == getElementTypeOrSelf(o.results[1])
    IN  IF getWidth(srcType) > getWidth(dstType)
        THEN failure(Diag(FALSE,
                 "result type <dst> must be wider than operand type <src>",
                 <<dstType, srcType>>))
        ELSE success

\* verifyConcatOp summing the first operand's width twice
verifyConcatOp_FirstTwice(o) ==
    LET firstType == getElementTypeOrSelf(o.operands[1])
        secondType == getElementTypeOrSelf(o.operands[2])
        dstType == getElementTypeOrSelf(o.results[1])
        sumOfTypes == getWidth(firstType) + getWidth(firstType)
    IN  IF sumOfTypes # getWidth(dstType)
        THEN failure(Diag(FALSE,
                 "sum of <first> and <second> must be equal to operand type <dst>",
                 <<firstType, secondType, dstType>>))
        ELSE success

\* verifyConcatOp: the result width is the sum of the operand widths
verifyConcatOp(o) ==
    LET firstType == getElementTypeOrSelf(o.operands[1])
        secondType == getElementTypeOrSelf(o.operands[2])
        dstType == getElementTypeOrSelf(o.results[1])
        sumOfTypes == getWidth(firstType) + getWidth(secondType)
    IN  IF sumOfTypes # getWidth(dstType)
        THEN failure(Diag(FALSE,
                 "sum of <first> and <second> must be equal to operand type <dst>",
                 <<firstType, secondType, dstType>>))
        ELSE success

\* verifyInitArrayOp streaming the element width instead of the init width
verifyInitArrayOp_StreamsElementWidth(o) ==
    LET initWidth == getWidth(o.operands[1])
        elementType == getElement(getArrayType(o))
    IN  IF getWidth(elementType) # initWidth
        THEN failure(Diag(TRUE,
                 "element initWidth of the array must match  bitwidth of given value: <n>",
                 <<Num(getWidth(elementType))>>))
        ELSE success

\* verifyInitArrayOp (generic encoding): operand is init
verifyInitArrayOp(o) ==
    LET initWidth == getWidth(o.operands[1])
        elementType == getElement(getArrayType(o))
    IN  IF getWidth(elementType) # initWidth
        THEN failure(Diag(TRUE,
                 "element initWidth of the array must match  bitwidth of given value: <n>",
                 <<Num(initWidth)>>))
        ELSE success

\* verifyReadOp (generic encoding): operands are base, index
verifyReadOp(o) ==
    LET resWidth == getWidth(o.results[1])
    IN  IF getWidth(getElement(getArrayType(o))) # resWidth
        THEN failure(Diag(TRUE,
                 "element type of the array must match  bitwidth of return type: <n>",
                 <<Num(resWidth)>>))
        ELSE success

\* verifyWriteOp rejecting only a value wider than the element
verifyWriteOp_AcceptsNarrower(o) ==
    LET valWidth == getWidth(o.operands[1])
    IN  IF getWidth(getElement(getArrayType(o))) < valWidth
        THEN failure(Diag(TRUE,
                 "element type of the array must match  bitwidth of return type: <n>",
                 <<Num(valWidth)>>))
        ELSE success

\* verifyWriteOp (generic encoding): operands are value, base, index
verifyWriteOp(o) ==
    LET valWidth == getWidth(o.operands[1])
    IN  IF getWidth(getElement(getArrayType(o))) # valWidth
        THEN failure(Diag(TRUE,
                 "element type of the array must match  bitwidth of return type: <n>",
                 <<Num(valWidth)>>))
        ELSE success

\* verifyConstraintOp: the operand is a boolean
verifyConstraintOp(o) ==
    LET resultType == o.operands[1]
    IN  IF getWidth(resultType) # 1
        THEN failure(Diag(TRUE,
                 "result must be bit vector of length 1 instead got length of <n>",
                 <<Num(getWidth(resultType))>>))
        ELSE success

\* verifyBooleanOp: the result is a boolean
verifyBooleanOp(o) ==
    LET resultType == o.results[1]
    IN  IF getWidth(resultType) # 1
        THEN failure(Diag(TRUE,
                 "result must be bit vector of length 1 instead got length of <n>",
                 <<Num(getWidth(resultType))>>))
        ELSE success

\* verifyCmpOp looking at the operand's width instead of the result's
verifyCmpOp_ChecksOperand(o) ==
    LET resultLength == getWidth(o.operands[1])
    IN  IF resultLength # 1
        THEN failure(Diag(TRUE,
                 "result must be bit vector of length 1 instead got length of <n>",
                 <<Num(resultLength)>>))
        ELSE success

\* verifyCmpOp: the result is a boolean
verifyCmpOp(o) ==
    LET resultLength == getWidth(o.results[1])
    IN  IF resultLength # 1
        THEN failure(Diag(TRUE,
                 "result must be bit vector of length 1 instead got length of <n>",
                 <<Num(resultLength)>>))
        ELSE success

\* verifyAssertNotOp: the operand is a boolean
verifyAssertNotOp(o) ==
    LET resultLength == getWidth(o.operands[1])
    IN  IF resultLength # 1
        THEN failure(Diag(TRUE,
                 "result must be bit vector of length 1 instead got length of <n>",
                 <<Num(resultLength)>>))
        ELSE success

\* verifyVectorInitArrayOp: element width, then rank 1, then power of two
verifyVectorInitArrayOp(o) ==
    LET initWidth == getWidth(o.operands[1])
        elementType == getElementType(getArrayType(o))
    IN  IF getWidth(elementType) # initWidth
        THEN failure(Diag(TRUE,
                 "element type of the array must match  bitwidth of given value: <n>",
                 <<Num(initWidth)>>))
        ELSE IF Len(getArrayType(o).shape) # 1
        THEN failure(Diag(TRUE, "provide only one shape attribute ", <<>>))
        ELSE LET shape == getArrayType(o).shape[1]
             IN  IF indicator(shape) # 0
                 THEN failure(Diag(TRUE,
                          "given shape: <n> has to be a power of two",
                          <<Num(shape)>>))
                 ELSE success

\* verifyVectorReadOp: element width, then rank 1, then power of two
verifyVectorReadOp(o) ==
    LET type == getWidth(o.results[1])
    IN  IF getWidth(getElementType(getArrayType(o))) # type
        THEN failure(Diag(TRUE,
                 "element type of the array must match  bitwidth of return type: <n>",
                 <<Num(type)>>))
        ELSE IF Len(getArrayType(o).shape) # 1
        THEN failure(Diag(TRUE, "provide only one shape attribute ", <<>>))
        ELSE LET shape == getArrayType(o).shape[1]
             IN  IF indicator(shape) # 0
                 THEN failure(Diag(TRUE,
                          "given shape: <n> has to be a power of two",
                          <<Num(shape)>>))
                 ELSE success

\* verifyVectorWriteOp: element width only
verifyVectorWriteOp(o) ==
    LET type == getWidth(o.operands[1])
    IN  IF getWidth(getElementType(getArrayType(o))) # type
        THEN failure(Diag(TRUE,
                 "element type of the array must match  bitwidth of given value: <n>",
                 <<Num(type)>>))
        ELSE success

\* verifyMemRefInitArrayOp: every check is commented out in the source
verifyMemRefInitArrayOp(o) == success

\* verifyMemRefReadOp: element width, then rank 1, then power of two
verifyMemRefReadOp(o) ==
    LET type == getWidth(o.results[1])
    IN  IF getWidth(getElementType(getArrayType(o))) # type
        THEN failure(Diag(TRUE,
                 "element type of the array must match  bitwidth of return type: <n>",
                 <<Num(type)>>))
        ELSE IF Len(getArrayType(o).shape) # 1
        THEN failure(Diag(TRUE, "provide only one shape attribute ", <<>>))
        ELSE LET shape == getArrayType(o).shape[1]
             IN  IF indicator(shape) # 0
                 THEN failure(Diag(TRUE,
                          "given shape: <n> has to be a power of two",
                          <<Num(shape)>>))
                 ELSE success

\* verifyMemRefWriteOp: element width only
verifyMemRefWriteOp(o) ==
    LET type == getWidth(o.operands[1])
    IN  IF getWidth(getElementType(getArrayType(o))) # type
        THEN failure(Diag(TRUE,
                 "element type of the array must match  bitwidth of given value: <n>",
                 <<Num(type)>>))
        ELSE success

\* ConstantOp: the value attribute is an integer literal together with the
\* type of the attribute.  The dictionary holds the literal under "value" and
\* the width of its type under "value.width".
ValueAttr(v, w) == {[name |-> "value", value |-> v], [name |-> "value.width", value |-> w]}

\* op.value() / op.valueAttr()
value(o) == {a \in o.attrs : a.name \in {"value", "value.width"}}

\* op.valueAttr().getType().getIntOrFloatBitWidth()
valueAttrWidth(o) == (CHOOSE a \in o.attrs : a.name = "value.width").value

\* verifyConstantOp: the result width is the width of the attribute's type;
\* failure() carries no diagnostic
verifyConstantOp(o) ==
    IF getWidth(o.results[1]) = valueAttrWidth(o)
    THEN success
    ELSE [ok |-> FALSE, diags |-> <<>>]

\* ConstantOp::fold returning an empty attribute
fold_NullAttribute(o, operands) ==
    IF operands # <<>>
    THEN [ok |-> FALSE, value |-> {}]
    ELSE [ok |-> TRUE, value |-> {}]

\* ConstantOp::fold: assert(operands.empty()); return value();
fold(o, operands) ==
    IF operands # <<>>
    THEN [ok |-> FALSE, value |-> {}]
    ELSE [ok |-> TRUE, value |-> value(o)]

\* The kinds whose verifier is one of the functions above; the other kinds
\* have no custom verifier in this file.
verify(o) ==
    CASE o.name = "SliceOp" -> verifySliceOp(o)
      [] o.name = "ConstantOp" -> verifyConstantOp(o)
      [] o.name = "IteWriteInPlaceOp" -> verifyIteWriteInPlaceOp(o)
      [] o.name = "ExtOp" -> verifyExtOp(o)
      [] o.name = "ConcatOp" -> verifyConcatOp(o)
      [] o.name = "InitArrayOp" -> verifyInitArrayOp(o)
      [] o.name = "ReadOp" -> verifyReadOp(o)
      [] o.name = "WriteOp" -> verifyWriteOp(o)
      [] o.name = "ConstraintOp" -> verifyConstraintOp(o)
      [] o.name = "BooleanOp" -> verifyBooleanOp(o)
      [] o.name = "CmpOp" -> verifyCmpOp(o)
      [] o.name = "AssertNotOp" -> verifyAssertNotOp(o)
      [] o.name = "VectorInitArrayOp" -> verifyVectorInitArrayOp(o)
      [] o.name = "VectorReadOp" -> verifyVectorReadOp(o)
      [] o.name = "VectorWriteOp" -> verifyVectorWriteOp(o)
      [] o.name = "MemRefInitArrayOp" -> verifyMemRefInitArrayOp(o)
      [] o.name = "MemRefReadOp" -> verifyMemRefReadOp(o)
      [] o.name = "MemRefWriteOp" -> verifyMemRefWriteOp(o)
      [] OTHER -> success

\* ---------------------------------------------------------------- parsers
\* What a custom parser returns: failure(), or success() with the
\* OperationState it filled in.
parseFailure == [ok |-> FALSE, op |-> NoOp]

parseSuccess(o) == [ok |-> TRUE, op |-> o]

\* OpAsmParser::parseOperandList(operands, requiredOperandCount)
parseOperandList(t, requiredOperandCount) == Len(t.operands) = requiredOperandCount

\* OpAsmParser::resolveOperands(operands, types, loc, result): the counts must
\* agree, and an operand that is already defined must have the type asked for
resolveOperands(operands, types) ==
    /\ Len(operands) = Len(types)
    /\ \A i \in 1 .. Len(operands) : operands[i] \in {Undef, types[i]}

\* parseUnaryDifferentResultOp: one operand, one type, result is always bv<1>
parseUnaryDifferentResultOp(t) ==
    IF ~parseOperandList(t, 1) \/ Len(t.types) < 1
    THEN parseFailure
    ELSE LET operandType == t.types[1]
         IN  IF resolveOperands(t.operands, <<operandType>>)
             THEN parseSuccess(Operation("UnaryDifferentResultOp", <<operandType>>,
                                         <<BitVecType(1)>>, t.attrs))
             ELSE parseFailure

\* parseIteOp taking the condition type from the second type of "C, T"
parseIteOp_ConditionFromResult(t) ==
    IF ~parseOperandList(t, 3) \/ Len(t.types) < 1
    THEN parseFailure
    ELSE LET comma == Len(t.types) >= 2
             resultType == IF comma THEN t.types[2] ELSE t.types[1]
             conditionType == IF comma THEN resultType ELSE BitVecType(1)
         IN  IF resolveOperands(t.operands, <<conditionType, resultType, resultType>>)
             THEN parseSuccess(Operation("IteOp",
                                         <<conditionType, resultType, resultType>>,
                                         <<resultType>>, t.attrs))
             ELSE parseFailure

\* parseIteOp: three operands; ": T" or ": C, T"
parseIteOp(t) ==
    IF ~parseOperandList(t, 3) \/ Len(t.types) < 1
    THEN parseFailure
    ELSE LET comma == Len(t.types) >= 2
             conditionType == IF comma THEN t.types[1] ELSE BitVecType(1)
             resultType == IF comma THEN t.types[2] ELSE t.types[1]
         IN  IF resolveOperands(t.operands, <<conditionType, resultType, resultType>>)
             THEN parseSuccess(Operation("IteOp",
                                         <<conditionType, resultType, resultType>>,
                                         <<resultType>>, t.attrs))
             ELSE parseFailure

\* parseBinaryOverflowOp giving the result the operands' type
parseBinaryOverflowOp_SameResultType(t) ==
    IF ~parseOperandList(t, 2) \/ Len(t.types) < 1
    THEN parseFailure
    ELSE LET operandType == t.types[1]
         IN  IF resolveOperands(t.operands, <<operandType, operandType>>)
             THEN parseSuccess(Operation("BinaryOverflowOp",
                                         <<operandType, operandType>>,
                                         <<operandType>>, t.attrs))
             ELSE parseFailure

\* parseBinaryOverflowOp: two operands of the one declared type, result bv<1>
parseBinaryOverflowOp(t) ==
    IF ~parseOperandList(t, 2) \/ Len(t.types) < 1
    THEN parseFailure
    ELSE LET operandType == t.types[1]
         IN  IF resolveOperands(t.operands, <<operandType, operandType>>)
             THEN parseSuccess(Operation("BinaryOverflowOp",
                                         <<operandType, operandType>>,
                                         <<BitVecType(1)>>, t.attrs))
             ELSE parseFailure

\* parseConcatOp: two operands; first type, second type, result type
parseConcatOp(t) ==
    IF ~parseOperandList(t, 2) \/ Len(t.types) < 3
    THEN parseFailure
    ELSE LET firstOperandType == t.types[1]
             secondOperandType == t.types[2]
             resultType == t.types[3]
         IN  IF resolveOperands(t.operands, <<firstOperandType, secondOperandType>>)
             THEN parseSuccess(Operation("ConcatOp",
                                         <<firstOperandType, secondOperandType>>,
                                         <<resultType>>, t.attrs))
             ELSE parseFailure

\* ------------------------------------------------ generic array parsers
\* parseType(resultType) with resultType declared btor::ArrayType: a type
\* must be there and it must be an array type
parseArrayType(t) == Len(t.types) >= 1 /\ t.types[1].k = "array"

\* parseIteWriteInPlaceOp: condition, value, base[index] : array type
parseIteWriteInPlaceOp(t) ==
    IF Len(t.operands) # 4 \/ ~parseArrayType(t)
    THEN parseFailure
    ELSE LET resultType == t.types[1]
             indexType == getShape(resultType)
             conditionType == BitVecType(1)
             types == <<conditionType, getElement(resultType), resultType, indexType>>
         IN  IF resolveOperands(t.operands, types)
             THEN parseSuccess(Operation("IteWriteInPlaceOp", types,
                                         <<resultType>>, t.attrs))
             ELSE parseFailure

\* parseWriteOp that drops the result of resolveOperands
parseWriteOp_IgnoresResolve(t) ==
    IF Len(t.operands) # 3 \/ ~parseArrayType(t)
    THEN parseFailure
    ELSE LET resultType == t.types[1]
             types == <<getElement(resultType), resultType, getShape(resultType)>>
         IN  parseSuccess(Operation("WriteOp", types, <<resultType>>, t.attrs))

\* parseWriteOp: value, base[index] : array type
parseWriteOp(t) ==
    IF Len(t.operands) # 3 \/ ~parseArrayType(t)
    THEN parseFailure
    ELSE LET resultType == t.types[1]
             indexType == getShape(resultType)
             types == <<getElement(resultType), resultType, indexType>>
         IN  IF resolveOperands(t.operands, types)
             THEN parseSuccess(Operation("WriteOp", types, <<resultType>>, t.attrs))
             ELSE parseFailure

\* --------------------------------------------- vector and buffer parsers
RECURSIVE floorLog2(_)
\* (unsigned) log2(n) for n >= 1: the double is truncated
floorLog2(n) == IF n <= 1 THEN 0 ELSE 1 + floorLog2(n \div 2)

\* getIntegerType(log2(type.getShape()[0]), false).  log2 of 0 is -infinity
\* and of a dynamic length (-1) is NaN; converting either to unsigned is
\* undefined, and so is getShape()[0] of a rank-0 shape: ub is the width such
\* a run comes up with.
derivedIndexType(type, ub) ==
    IF Len(type.shape) >= 1 /\ type.shape[1] >= 1
    THEN UnsignedType(floorLog2(type.shape[1]))
    ELSE UnsignedType(ub)

\* base[index] : base type, result type -- shared by parseVectorReadOp and
\* parseMemRefReadOp
parseShapedReadOp(name, kind, t, ub) ==
    IF Len(t.operands) # 2 \/ Len(t.types) < 2 \/ t.types[1].k # kind
    THEN parseFailure
    ELSE LET baseType == t.types[1]
             resultType == t.types[2]
             indexType == derivedIndexType(baseType, ub)
         IN  IF resolveOperands(t.operands, <<baseType, indexType>>)
             THEN parseSuccess(Operation(name, <<baseType, indexType>>,
                                         <<resultType>>, t.attrs))
             ELSE parseFailure

\* value, base[index] : result type -- shared by parseVectorWriteOp and
\* parseMemRefWriteOp
parseShapedWriteOp(name, kind, t, ub) ==
    IF Len(t.operands) # 3 \/ Len(t.types) < 1 \/ t.types[1].k # kind
    THEN parseFailure
    ELSE LET resultType == t.types[1]
             indexType == derivedIndexType(resultType, ub)
             types == <<getElementType(resultType), resultType, indexType>>
         IN  IF resolveOperands(t.operands, types)
             THEN parseSuccess(Operation(name, types, <<resultType>>, t.attrs))
             ELSE parseFailure

parseVectorReadOp(t, ub) == parseShapedReadOp("VectorReadOp", "vector", t, ub)

parseVectorWriteOp(t, ub) == parseShapedWriteOp("VectorWriteOp", "vector", t, ub)

parseMemRefReadOp(t, ub) == parseShapedReadOp("MemRefReadOp", "memref", t, ub)

parseMemRefWriteOp(t, ub) == parseShapedWriteOp("MemRefWriteOp", "memref", t, ub)

\* ------------------------------------------------- id-carrying operations
\* The text of an InputOp, NDStateOp or ArrayOp starts with the id attribute
\* instead of an operand list.  The token at that place is an integer literal
\* that fits 64 bits unsigned ("int"), a negative literal ("neg"), a literal
\* too large for 64 bits ("big"), some other attribute ("str"), or is
\* missing ("none").
IdToken(k, n) == [k |-> k, value |-> n]

IdTokens ==
    {IdToken("int", n) : n \in 0 .. MaxId}
    \cup {IdToken("neg", 1), IdToken("big", 0), IdToken("str", 0), IdToken("none", 0)}

IdText(id, attrs, types) ==
    [operands |-> <<>>, attrs |-> attrs, types |-> types, id |-> id]

\* parser.parseAttribute(idAttr, i64Type, "id", attrs) with i64Type the
\* unsigned 64-bit integer type: an attribute must be there, and an integer
\* literal must be a value of the type
parseIdAttribute(t) == t.id.k \in {"int", "str"}

\* idAttr.isa<mlir::IntegerAttr>()
isIntegerAttr(id) == id.k = "int"

\* parseInputOp, parseNDStateOpOp and parseArrayOp differ only in the name of
\* the operation and in the type parseColonType accepts
parseIdOp(name, resultTypes, t) ==
    IF ~parseIdAttribute(t) \/ Len(t.types) < 1
    THEN parseFailure
    ELSE IF t.types[1] \notin resultTypes
    THEN parseFailure
    ELSE IF ~isIntegerAttr(t.id)
    THEN parseFailure
    ELSE parseSuccess(Operation(name, <<>>, <<t.types[1]>>,
                                {[name |-> "id", value |-> t.id.value]} \cup t.attrs))

\* parseInputOp: the result is of any type
parseInputOp(t) == parseIdOp("InputOp", BitVecTypes \cup ArrayTypes, t)

\* parseNDStateOpOp: the result is of any type
parseNDStateOpOp(t) == parseIdOp("NDStateOp", BitVecTypes \cup ArrayTypes, t)

\* parseArrayOp: the result is an ArrayType
parseArrayOp(t) == parseIdOp("ArrayOp", ArrayTypes, t)

\* op.id()
id(o) == (CHOOSE a \in o.attrs : a.name = "id").value

\* --------------------------------------------------------------- printers
\* A printer writes the text of an operation.  The operands it prints are SSA
\* names of values that exist, so a parser reading the text back finds each
\* of them defined with the type the operation gave it.

\* printIteOp: the operands, " : ", the result type; nothing else
printIteOp(o) == Text(o.operands, {}, <<o.results[1]>>)

\* printInputOp: the id, " : ", the result type; nothing else
printInputOp(o) == IdText(IdToken("int", id(o)), {}, <<o.results[1]>>)

\* printNDStateOpOp: the id, " : ", the result type; nothing else
printNDStateOpOp(o) == IdText(IdToken("int", id(o)), {}, <<o.results[1]>>)

\* printArrayOp: the id, " : ", the result type; nothing else
printArrayOp(o) == IdText(IdToken("int", id(o)), {}, <<o.results[1]>>)

\* --------------------------------------------------------------- builders
\* The index type of an array type: its declared index type (generic
\* encoding) or an unsigned integer (vector and buffer encodings).
\* Only the parsers compute it; the verifiers never look at it.
builtIndexType(a) == IF a.k = "array" THEN getShape(a) ELSE UnsignedType(1)

\* The operations a builder can construct: operands and results of the type
\* family the kind declares, of any width.
BuiltScalarOps ==
    {Operation("SliceOp", <<s, s, s>>, <<d>>, {}) : s \in BitVecTypes, d \in BitVecTypes}
    \cup {Operation("ExtOp", <<s>>, <<d>>, {}) : s \in BitVecTypes, d \in BitVecTypes}
    \cup {Operation("ConcatOp", <<l, r>>, <<d>>, {}) :
              l \in BitVecTypes, r \in BitVecTypes, d \in BitVecTypes}
    \cup {Operation(n, <<s, s>>, <<d>>, {}) :
              n \in {"CmpOp", "BooleanOp"}, s \in BitVecTypes, d \in BitVecTypes}
    \cup {Operation(n, <<s>>, <<>>, {}) :
              n \in {"AssertNotOp", "ConstraintOp"}, s \in BitVecTypes}

BuiltArrayOps ==
    {Operation("InitArrayOp", <<v>>, <<a>>, {}) : v \in BitVecTypes, a \in ArrayTypes}
    \cup {Operation("ReadOp", <<a, builtIndexType(a)>>, <<r>>, {}) :
              a \in ArrayTypes, r \in BitVecTypes}
    \cup {Operation("WriteOp", <<v, a, builtIndexType(a)>>, <<a>>, {}) :
              v \in BitVecTypes, a \in ArrayTypes}
    \cup {Operation("IteWriteInPlaceOp", <<c, v, a, builtIndexType(a)>>, <<a>>, {}) :
              c \in {BitVecType(1), BitVecType(2)}, v \in BitVecTypes,
              a \in {x \in ArrayTypes : x.shape = <<1>>}}

BuiltVectorOps ==
    {Operation("VectorInitArrayOp", <<v>>, <<a>>, {}) :
              v \in IntegerTypes, a \in VectorTypes}
    \cup {Operation("VectorReadOp", <<a, builtIndexType(a)>>, <<r>>, {}) :
              a \in VectorTypes, r \in IntegerTypes}
    \cup {Operation("VectorWriteOp", <<v, a, builtIndexType(a)>>, <<a>>, {}) :
              v \in IntegerTypes, a \in VectorTypes}

BuiltMemRefOps ==
    {Operation("MemRefInitArrayOp", <<>>, <<a>>, {}) : a \in MemRefTypes}
    \cup {Operation("MemRefReadOp", <<a, builtIndexType(a)>>, <<r>>, {}) :
              a \in MemRefTypes, r \in IntegerTypes}
    \cup {Operation("MemRefWriteOp", <<v, a, builtIndexType(a)>>, <<a>>, {}) :
              v \in IntegerTypes, a \in MemRefTypes}

BuiltConstantOps ==
    {Operation("ConstantOp", <<>>, <<r>>, ValueAttr(v, w)) :
              r \in BitVecTypes, v \in 0 .. 1, w \in Widths}

BuiltOps ==
    BuiltScalarOps \cup BuiltArrayOps \cup BuiltVectorOps \cup BuiltMemRefOps
    \cup BuiltConstantOps

\* ------------------------------------------------------------------ texts
UnaryTexts ==
    {Text(o, a, ty) : o \in OperandLists(1, 2), a \in AttrDicts,
                      ty \in TypeLists(BitVecTypes, 0, 1)}

OverflowTexts ==
    {Text(o, a, ty) : o \in OperandLists(1, 3), a \in AttrDicts,
                      ty \in TypeLists(BitVecTypes, 0, 1)}

ConcatTexts ==
    {Text(o, a, ty) : o \in OperandLists(1, 2), a \in AttrDicts,
                      ty \in TypeLists(BitVecTypes, 2, 3)}

IteTexts ==
    {Text(o, a, ty) : o \in OperandLists(2, 3), a \in AttrDicts,
                      ty \in TypeLists(BitVecTypes, 1, 2)}

\* result types written in the text of an id-carrying operation
IdResultTypes == {BitVecType(1), BitVecType(8), ArrayType(4, 8)}

IdTexts ==
    {IdText(i, a, ty) : i \in IdTokens, a \in AttrDicts,
                        ty \in TypeLists(IdResultTypes, 0, 1)}

\* what the operands of a generic array operation may already be defined as
BaseDefTypes == {Undef} \cup {a \in ArrayTypes : a.width \in {8, 16}}

IndexDefTypes == {Undef} \cup {BitVecType(w) : w \in IndexWidths}

ConditionDefTypes == {Undef, BitVecType(1), BitVecType(2)}

ArrayTypeLists == TypeLists(ArrayTypes \cup {BitVecType(1)}, 0, 1)

\* value, base and, unless the text stops short, index
WriteOperandLists ==
    {<<v, b, i>> : v \in DefTypes, b \in BaseDefTypes, i \in IndexDefTypes}
    \cup {<<v, b>> : v \in DefTypes, b \in BaseDefTypes}

WriteTexts ==
    {Text(o, a, ty) : o \in WriteOperandLists, a \in AttrDicts, ty \in ArrayTypeLists}

IteWriteInPlaceTexts ==
    {Text(<<c>> \o o, a, ty) : c \in ConditionDefTypes, o \in WriteOperandLists,
                               a \in AttrDicts, ty \in ArrayTypeLists}

\* what the operands of a vector or buffer operation may already be defined
\* as, and the types after ':'
ShapedBaseDefTypes(S) == {Undef} \cup {a \in S : a.width = 8}

UnsignedDefTypes == {Undef} \cup {UnsignedType(w) : w \in 0 .. 2}

IntegerDefTypes == {Undef} \cup IntegerTypes

ShapedReadTexts(S) ==
    {Text(<<b, i>>, a, ty) :
         b \in ShapedBaseDefTypes(S), i \in UnsignedDefTypes, a \in AttrDicts,
         ty \in {<<x, r>> : x \in S, r \in IntegerTypes} \cup {<<x>> : x \in S}}

ShapedWriteTexts(S) ==
    {Text(<<v, b, i>>, a, ty) :
         v \in IntegerDefTypes, b \in ShapedBaseDefTypes(S), i \in UnsignedDefTypes,
         a \in AttrDicts, ty \in TypeLists(S \cup {IntegerType(8)}, 0, 1)}

\* the widths an undefined conversion may come up with
UndefinedWidths == 0 .. MaxWidth

\* ---------------------------------------------------------------- actions
Init ==
    /\ text = NoText
    /\ op = NoOp
    /\ parsed = "none"
    /\ verified = "none"
    /\ diags = <<>>
    /\ printed = NoText
    /\ reparsed = "none"
    /\ op2 = NoOp
    /\ folded = <<>>
    /\ unit = <<>>
    /\ stage = "construct"
    /\ vpc = 1
    /\ unitFailed = FALSE
    /\ unitDiags = <<>>
    /\ lowered = {}

\* No operation has been constructed yet.
Idle == op = NoOp /\ parsed = "none"

\* A parser ran on text t and returned r: on success the operation exists,
\* on failure nothing is created.
Parsed(t, r) ==
    /\ text' = t
    /\ op' = r.op
    /\ parsed' = IF r.ok THEN "success" ELSE "failure"
    /\ UNCHANGED <<verified, diags>>
    /\ UNCHANGED <<roundTripVars, folded, unitVars>>

ParseUnaryDifferentResultOp ==
    /\ Idle
    /\ \E t \in UnaryTexts : Parsed(t, parseUnaryDifferentResultOp(t))

ParseIteOp ==
    /\ Idle
    /\ \E t \in IteTexts : Parsed(t, parseIteOp(t))

ParseBinaryOverflowOp ==
    /\ Idle
    /\ \E t \in OverflowTexts : Parsed(t, parseBinaryOverflowOp(t))

ParseConcatOp ==
    /\ Idle
    /\ \E t \in ConcatTexts : Parsed(t, parseConcatOp(t))

\* Programmatic construction of an operation.
Build ==
    /\ Idle
    /\ \E o \in BuiltOps : op' = o
    /\ UNCHANGED <<text, parsed, verified, diags>>
    /\ UNCHANGED <<roundTripVars, folded, unitVars>>

\* The verifier of the operation's kind runs on it; its diagnostics are
\* reported.
Verify ==
    /\ op # NoOp
    /\ verified = "none"
    /\ LET r == verify(op)
       IN  /\ verified' = IF r.ok THEN "success" ELSE "failure"
           /\ diags' = diags \o r.diags
    /\ UNCHANGED <<text, op, parsed>>
    /\ UNCHANGED <<roundTripVars, folded, unitVars>>

\* The printer of the operation's kind and the parser that reads it back.
print(o) ==
    CASE o.name = "IteOp" -> printIteOp(o)
      [] o.name = "InputOp" -> printInputOp(o)
      [] o.name = "NDStateOp" -> printNDStateOpOp(o)
      [] o.name = "ArrayOp" -> printArrayOp(o)

parse(name, t) ==
    CASE name = "IteOp" -> parseIteOp(t)
      [] name = "InputOp" -> parseInputOp(t)
      [] name = "NDStateOp" -> parseNDStateOpOp(t)
      [] name = "ArrayOp" -> parseArrayOp(t)

PrintableKinds == {"IteOp", "InputOp", "NDStateOp", "ArrayOp"}

ParseIteWriteInPlaceOp ==
    /\ Idle
    /\ \E t \in IteWriteInPlaceTexts : Parsed(t, parseIteWriteInPlaceOp(t))

ParseWriteOp ==
    /\ Idle
    /\ \E t \in WriteTexts : Parsed(t, parseWriteOp(t))

ParseVectorReadOp ==
    /\ Idle
    /\ \E t \in ShapedReadTexts(VectorTypes), ub \in UndefinedWidths :
           Parsed(t, parseVectorReadOp(t, ub))

ParseVectorWriteOp ==
    /\ Idle
    /\ \E t \in ShapedWriteTexts(VectorTypes), ub \in UndefinedWidths :
           Parsed(t, parseVectorWriteOp(t, ub))

ParseMemRefReadOp ==
    /\ Idle
    /\ \E t \in ShapedReadTexts(MemRefTypes), ub \in UndefinedWidths :
           Parsed(t, parseMemRefReadOp(t, ub))

ParseMemRefWriteOp ==
    /\ Idle
    /\ \E t \in ShapedWriteTexts(MemRefTypes), ub \in UndefinedWidths :
           Parsed(t, parseMemRefWriteOp(t, ub))

ParseInputOp ==
    /\ Idle
    /\ \E t \in IdTexts : Parsed(t, parseInputOp(t))

ParseNDStateOpOp ==
    /\ Idle
    /\ \E t \in IdTexts : Parsed(t, parseNDStateOpOp(t))

ParseArrayOp ==
    /\ Idle
    /\ \E t \in IdTexts : Parsed(t, parseArrayOp(t))

\* A parsed operation is printed.
PrintOp ==
    /\ parsed = "success"
    /\ reparsed = "none"
    /\ op.name \in PrintableKinds
    /\ printed' = print(op)
    /\ reparsed' = "printed"
    /\ UNCHANGED <<opVars, op2, folded, unitVars>>

\* The printed text is parsed again by the parser of the same kind.
Reparse ==
    /\ reparsed = "printed"
    /\ LET r == parse(op.name, printed)
       IN  /\ op2' = r.op
           /\ reparsed' = IF r.ok THEN "success" ELSE "failure"
    /\ UNCHANGED <<opVars, printed, folded, unitVars>>

\* The folder calls fold with one attribute per operand of the operation; a
\* ConstantOp has none.
Fold ==
    /\ op.name = "ConstantOp"
    /\ Len(folded) < MaxFolds
    /\ LET operands == [i \in 1 .. Len(op.operands) |-> {}]
       IN  folded' = Append(folded, fold(op, operands))
    /\ UNCHANGED <<opVars, roundTripVars, unitVars>>

Next ==
    \/ ParseVectorReadOp
    \/ ParseVectorWriteOp
    \/ ParseMemRefReadOp
    \/ ParseMemRefWriteOp
    \/ ParseIteWriteInPlaceOp
    \/ ParseWriteOp
    \/ Fold
    \/ ParseInputOp
    \/ ParseNDStateOpOp
    \/ ParseArrayOp
    \/ PrintOp
    \/ Reparse
    \/ ParseUnaryDifferentResultOp
    \/ ParseIteOp
    \/ ParseBinaryOverflowOp
    \/ ParseConcatOp
    \/ Build
    \/ Verify

Spec == Init /\ [][Next]_vars

\* ------------------------------------------------------- the program unit
\* A program unit is built by parsing one operation after the other; the
\* operation a parser succeeds on is registered in the unit, a failed parse
\* creates nothing.  The unit is then verified operation by operation, and
\* lowered by the conversion passes.
MaxOps == 2

LoweringPasses ==
    {"BtorNDToLLVM", "BtorToArithmetic", "BtorToLLVM", "BtorToMemref", "BtorToVector"}

UnitInputTexts ==
    {IdText(i, {}, ty) : i \in IdTokens,
                         ty \in TypeLists({BitVecType(1), BitVecType(8)}, 0, 1)}

UnitWriteTexts ==
    {Text(o, {}, ty) :
         o \in {<<v, Undef, i>> : v \in {Undef, BitVecType(8), BitVecType(1)},
                                  i \in {Undef, BitVecType(4)}}
               \cup {<<v, Undef>> : v \in {Undef, BitVecType(8)}},
         ty \in TypeLists({ArrayType(4, 8), BitVecType(1)}, 0, 1)}

UnitConcatTexts ==
    {Text(o, {}, ty) :
         o \in {<<Undef, Undef>>, <<BitVecType(1), Undef>>, <<Undef>>},
         ty \in {<<BitVecType(1), BitVecType(1), BitVecType(2)>>,
                 <<BitVecType(1), BitVecType(1), BitVecType(1)>>,
                 <<BitVecType(2), BitVecType(1), BitVecType(1)>>,
                 <<BitVecType(1), BitVecType(1)>>}}

\* The unit is still under construction and has room.
Constructing == stage = "construct" /\ Len(unit) < MaxOps

\* A parser ran on text t and returned r: on success the operation is
\* registered in the unit, on failure the unit is as it was.
Registered(t, r) ==
    /\ text' = t
    /\ op' = r.op
    /\ parsed' = IF r.ok THEN "success" ELSE "failure"
    /\ unit' = IF r.ok THEN Append(unit, r.op) ELSE unit
    /\ UNCHANGED <<verified, diags, roundTripVars, folded>>
    /\ UNCHANGED <<stage, vpc, unitFailed, unitDiags, lowered>>

RegisterInputOp ==
    /\ Constructing
    /\ \E t \in UnitInputTexts : Registered(t, parseInputOp(t))

RegisterWriteOp ==
    /\ Constructing
    /\ \E t \in UnitWriteTexts : Registered(t, parseWriteOp(t))

RegisterConcatOp ==
    /\ Constructing
    /\ \E t \in UnitConcatTexts : Registered(t, parseConcatOp(t))

\* The source is consumed: the parser is done and verification of the unit
\* starts at its first operation.
StartVerify ==
    /\ stage = "construct"
    /\ stage' = "verify"
    /\ vpc' = 1
    /\ text' = NoText
    /\ op' = NoOp
    /\ parsed' = "none"
    /\ UNCHANGED <<verified, diags, roundTripVars, folded>>
    /\ UNCHANGED <<unit, unitFailed, unitDiags, lowered>>

\* Verification visits the next operation, whatever the earlier ones gave,
\* and accumulates its errors.
VerifyStep ==
    /\ stage = "verify"
    /\ vpc <= Len(unit)
    /\ LET r == verify(unit[vpc])
       IN  /\ unitDiags' = unitDiags \o r.diags
           /\ unitFailed' = (unitFailed \/ ~r.ok)
    /\ vpc' = vpc + 1
    /\ UNCHANGED <<opVars, roundTripVars, folded>>
    /\ UNCHANGED <<unit, stage, lowered>>

\* FinishVerify that forgets the errors
FinishVerify_IgnoresFailure ==
    /\ stage = "verify"
    /\ vpc > Len(unit)
    /\ stage' = "verified"
    /\ UNCHANGED <<opVars, roundTripVars, folded>>
    /\ UNCHANGED <<unit, vpc, unitFailed, unitDiags, lowered>>

\* Every operation has been visited: the unit is marked failed if any of
\* them failed.
FinishVerify ==
    /\ stage = "verify"
    /\ vpc > Len(unit)
    /\ stage' = IF unitFailed THEN "failed" ELSE "verified"
    /\ UNCHANGED <<opVars, roundTripVars, folded>>
    /\ UNCHANGED <<unit, vpc, unitFailed, unitDiags, lowered>>

\* A lowering pass starts on the verified unit.
Lower ==
    /\ stage = "verified"
    /\ \E p \in LoweringPasses \ lowered : lowered' = lowered \cup {p}
    /\ UNCHANGED <<opVars, roundTripVars, folded>>
    /\ UNCHANGED <<unit, stage, vpc, unitFailed, unitDiags>>

UnitNext ==
    \/ RegisterInputOp
    \/ RegisterWriteOp
    \/ RegisterConcatOp
    \/ StartVerify
    \/ VerifyStep
    \/ FinishVerify
    \/ Lower

UnitSpec == Init /\ [][UnitNext]_vars

\* ------------------------------------------------------ claim vocabulary
\* The operation has been through its verifier.
Verified == verified # "none"

\* The width of the value an array operation carries: the init value, the
\* written value, or the read result.
ValueWidth(o) ==
    IF o.name \in {"ReadOp", "VectorReadOp", "MemRefReadOp"}
    THEN o.results[1].width
    ELSE o.operands[1].width

ElementWidth(o) == getArrayType(o).width

\* 1, 2, 4, 8, ...
IsPowerOfTwo(n) == \E k \in 0 .. n : 2 ^ k = n

\* A generic array has no shape restriction; a vector or buffer shape is valid
\* when it has one dimension whose length is an exact power of two.
ValidShape(o) ==
    \/ getArrayType(o).k = "array"
    \/ /\ Len(getArrayType(o).shape) = 1
       /\ getArrayType(o).shape[1] >= 1
       /\ IsPowerOfTwo(getArrayType(o).shape[1])

\* Diagnostic d names the number n: n was streamed into it, as a number or as
\* a width of a type.
Names(d, n) ==
    \E i \in 1 .. Len(d.args) :
        \/ d.args[i].width = n
        \/ \E j \in 1 .. Len(d.args[i].shape) : d.args[i].shape[j] = n

\* Diagnostic d names the type t.
NamesType(d, t) == \E i \in 1 .. Len(d.args) : d.args[i] = t

VectorKinds == {"VectorInitArrayOp", "VectorReadOp", "VectorWriteOp"}

MemRefKinds == {"MemRefInitArrayOp", "MemRefReadOp", "MemRefWriteOp"}

ValueArrayKinds ==
    {"InitArrayOp", "ReadOp", "WriteOp", "VectorInitArrayOp", "VectorReadOp",
     "VectorWriteOp", "MemRefReadOp", "MemRefWriteOp"}

\* ----------------------------------------------------------------- claims
\* C1: a VectorInitArrayOp, VectorReadOp or VectorWriteOp whose value width
\* equals the element width fails verification over a vector of length 3 and
\* passes over a vector of length 4.
C1_VectorShapeRejection ==
    (Verified /\ op.name \in VectorKinds /\ ValueWidth(op) = ElementWidth(op))
        => /\ getArrayType(op).shape = <<3>> => verified = "failure"
           /\ getArrayType(op).shape = <<4>> => verified = "success"

\* C2: in every encoding, an array init, read or write whose value width
\* differs from the element width fails verification, and with a valid shape
\* and equal widths it passes.
C2_ElementMatch ==
    (Verified /\ op.name \in ValueArrayKinds)
        => /\ ValueWidth(op) # ElementWidth(op) => verified = "failure"
           /\ (ValidShape(op) /\ ValueWidth(op) = ElementWidth(op))
                  => verified = "success"

C2_Witness ==
    /\ op.name = "MemRefWriteOp"
    /\ ValueWidth(op) = 8
    /\ ElementWidth(op) = 16
    /\ verified = "failure"

\* C3 as stated: when verifyInitArrayOp rejects an init width v against an
\* element width e, the diagnostic names both v and e.
C3_DiagnosticNamesBothWidths ==
    (Verified /\ op.name = "InitArrayOp" /\ verified = "failure")
        => /\ Len(diags) = 1
           /\ Names(diags[1], ValueWidth(op))
           /\ Names(diags[1], ElementWidth(op))

\* C3 as amended: InitArrayOp passes verification exactly when the init width
\* equals the element width, and the diagnostic of a rejection names the init
\* width and nothing else: the element width is not streamed into it.
C3_DiagnosticNamesInitWidth ==
    (Verified /\ op.name = "InitArrayOp")
        => /\ verified = "success" <=> ValueWidth(op) = ElementWidth(op)
           /\ verified = "success" => diags = <<>>
           /\ verified = "failure"
                  => /\ Len(diags) = 1
                     /\ diags[1].args = <<Num(ValueWidth(op))>>
                     /\ ~Names(diags[1], ElementWidth(op))

C3_Witness ==
    /\ op = Operation("InitArrayOp", <<BitVecType(8)>>, <<ArrayType(4, 16)>>, {})
    /\ verified = "failure"
    /\ Len(diags) = 1
    /\ Names(diags[1], 8)

\* C4: a MemRefInitArrayOp, MemRefReadOp or MemRefWriteOp over a backing store
\* whose (static) length is not a power of two fails verification.
C4_BufferShapeRejection ==
    (/\ Verified
     /\ op.name \in MemRefKinds
     /\ Len(getArrayType(op).shape) = 1
     /\ getArrayType(op).shape[1] >= 1
     /\ indicator(getArrayType(op).shape[1]) # 0)
        => verified = "failure"

\* C5: an overflow operation parsed from two operands of the declared type T
\* has exactly one result, of type bv<1>, and both operands have type T.
C5_OverflowResultIsBoolean ==
    (parsed = "success" /\ op.name = "BinaryOverflowOp")
        => /\ op.results = <<BitVecType(1)>>
           /\ op.operands = <<text.types[1], text.types[1]>>

C5_Witness ==
    /\ parsed = "success"
    /\ op.name = "BinaryOverflowOp"
    /\ text.types[1] = BitVecType(16)
    /\ op.results = <<BitVecType(1)>>

\* C6: a comparison or boolean operation passes verification exactly when its
\* result has width 1, an AssertNotOp or ConstraintOp exactly when its operand
\* has width 1, and a rejection reports the offending width.
C6_BooleanWidth ==
    /\ (Verified /\ op.name \in {"CmpOp", "BooleanOp"})
           => /\ verified = "success" <=> op.results[1].width = 1
              /\ verified = "failure"
                     => diags = <<Diag(TRUE,
                            "result must be bit vector of length 1 instead got length of <n>",
                            <<Num(op.results[1].width)>>)>>
    /\ (Verified /\ op.name \in {"AssertNotOp", "ConstraintOp"})
           => /\ verified = "success" <=> op.operands[1].width = 1
              /\ verified = "failure"
                     => diags = <<Diag(TRUE,
                            "result must be bit vector of length 1 instead got length of <n>",
                            <<Num(op.operands[1].width)>>)>>

C6_Witness ==
    /\ op.name = "AssertNotOp"
    /\ op.operands[1].width = 2
    /\ verified = "failure"
    /\ Len(diags) = 1
    /\ Names(diags[1], 2)

\* C7: a ConcatOp passes verification exactly when its result width is the
\* sum of its operand widths, whether or not the operand widths are equal.
C7_ConcatSum ==
    (Verified /\ op.name = "ConcatOp")
        => (verified = "success"
                <=> op.results[1].width = op.operands[1].width + op.operands[2].width)

C7_Witness ==
    /\ op.name = "ConcatOp"
    /\ op.operands[1].width = 1
    /\ op.operands[2].width = 2
    /\ op.results[1].width = 3
    /\ verified = "success"

\* C8: a SliceOp passes verification exactly when its result is no wider than
\* its source; a rejection names the result type and the operand type.
C8_SliceNarrows ==
    (Verified /\ op.name = "SliceOp")
        => /\ verified = "success" <=> op.results[1].width <= op.operands[1].width
           /\ verified = "failure"
                  => /\ Len(diags) = 1
                     /\ NamesType(diags[1], op.results[1])
                     /\ NamesType(diags[1], op.operands[1])

C8_Witness ==
    /\ op.name = "SliceOp"
    /\ op.results[1].width = 2
    /\ op.operands[1].width = 2
    /\ verified = "success"

\* C9: an extension passes verification exactly when its result is at least
\* as wide as its source; equal widths are accepted.
C9_ExtWidens ==
    (Verified /\ op.name = "ExtOp")
        => (verified = "success" <=> op.results[1].width >= op.operands[1].width)

C9_Witness ==
    /\ op.name = "ExtOp"
    /\ op.results[1].width = 2
    /\ op.operands[1].width = 2
    /\ verified = "success"

\* C10: a parsed IteOp has its true and false operands and its result typed
\* T; its condition is bv<1> when the text gives the single type T, and C when
\* the text gives "C, T".
C10_IteTypes ==
    (parsed = "success" /\ op.name = "IteOp")
        => LET T == IF Len(text.types) = 1 THEN text.types[1] ELSE text.types[2]
               C == IF Len(text.types) = 1 THEN BitVecType(1) ELSE text.types[1]
           IN  /\ op.operands = <<C, T, T>>
               /\ op.results = <<T>>

C10_Witness ==
    /\ parsed = "success"
    /\ op.name = "IteOp"
    /\ text.types = <<BitVecType(2), BitVecType(8)>>
    /\ op.operands[1] = BitVecType(2)
    /\ op.results = <<BitVecType(8)>>

\* C11: printing a parsed IteOp with printIteOp and parsing the printed text
\* with parseIteOp yields an operation with the same operands, condition
\* type, result type and attributes.
C11_IteRoundTrip ==
    (op.name = "IteOp" /\ reparsed \in {"success", "failure"})
        => /\ reparsed = "success"
           /\ op2.operands = op.operands
           /\ op2.results = op.results
           /\ op2.attrs = op.attrs

IdKinds == {"InputOp", "NDStateOp", "ArrayOp"}

\* C12: printing a parsed InputOp, NDStateOp or ArrayOp and parsing the
\* printed text yields an operation with the same id, the same result type
\* and the same attribute dictionary.
C12_IdRoundTrip ==
    (op.name \in IdKinds /\ reparsed \in {"success", "failure"})
        => /\ reparsed = "success"
           /\ id(op2) = id(op)
           /\ op2.results = op.results
           /\ op2.attrs = op.attrs

\* C13: every fold of a ConstantOp succeeds and returns the operation's value
\* attribute, so two folds return the same; a fold leaves the operation, its
\* result type and its attributes as they were.
C13_FoldReturnsValue ==
    /\ [](\A i \in 1 .. Len(folded) :
              /\ folded[i].ok
              /\ folded[i].value = value(op)
              /\ folded[i] = folded[1])
    /\ [][Len(folded') > Len(folded) => op' = op]_vars

C13_Witness ==
    /\ op.name = "ConstantOp"
    /\ Len(folded) = 2
    /\ folded[1].ok
    /\ folded[2] = folded[1]
    /\ folded[1].value = ValueAttr(1, 8)

\* C15: an IteWriteInPlaceOp passes verification exactly when the value
\* width equals the element width and the condition has width 1; a parsed one
\* has its condition typed bv<1>, its value the element type of the result
\* array type, its base that array type and its index the array's index type.
C15_IteWriteInPlace ==
    /\ (Verified /\ op.name = "IteWriteInPlaceOp")
           => (verified = "success"
                   <=> /\ op.operands[2].width = getArrayType(op).width
                       /\ op.operands[1].width = 1)
    /\ (parsed = "success" /\ op.name = "IteWriteInPlaceOp")
           => LET T == text.types[1]
              IN  /\ op.results = <<T>>
                  /\ op.operands =
                         <<BitVecType(1), BitVecType(T.width), T, BitVecType(T.shape[1])>>

C15_Witness ==
    /\ op.name = "IteWriteInPlaceOp"
    /\ op.operands[1].width = 2
    /\ op.operands[2].width = getArrayType(op).width
    /\ verified = "failure"

\* C17: the shape check of verifyVectorInitArrayOp, verifyVectorReadOp and
\* verifyMemRefReadOp accepts a length exactly when it is a power of two
\* 2^k, k >= 0; length 0 and negative lengths are rejected.
C17_PowerOfTwoCheck ==
    (/\ Verified
     /\ op.name \in {"VectorInitArrayOp", "VectorReadOp", "MemRefReadOp"}
     /\ ValueWidth(op) = ElementWidth(op)
     /\ Len(getArrayType(op).shape) = 1)
        => (verified = "success"
                <=> /\ getArrayType(op).shape[1] >= 1
                    /\ IsPowerOfTwo(getArrayType(op).shape[1]))

\* The index operand of a read (base, index) or a write (value, base, index).
IndexOperand(o) ==
    IF o.name \in {"ReadOp", "VectorReadOp", "MemRefReadOp"}
    THEN o.operands[2]
    ELSE o.operands[3]

\* C18: in a vector or buffer read or write that was parsed and passed
\* verification, the index operand is an unsigned integer of a positive width
\* w with 2^w equal to the length.
C18_IndexWidth ==
    (/\ parsed = "success"
     /\ verified = "success"
     /\ op.name \in {"VectorReadOp", "VectorWriteOp", "MemRefReadOp", "MemRefWriteOp"})
        => /\ IndexOperand(op).k = "ui"
           /\ IndexOperand(op).width >= 1
           /\ Len(getArrayType(op).shape) >= 1
           /\ 2 ^ IndexOperand(op).width = getArrayType(op).shape[1]

\* An operand already defined with a type other than the one the parser
\* synthesized for it.
OperandDisagrees(operands, types) ==
    \E i \in 1 .. Len(operands) :
        i <= Len(types) /\ operands[i] # Undef /\ operands[i] # types[i]

\* The failing parsing steps: wrong operand count, unparsable type, missing
\* or non-integer id attribute, disagreeing operand type.
WriteStepFails(t) ==
    \/ Len(t.operands) # 3
    \/ Len(t.types) < 1
    \/ t.types[1].k # "array"
    \/ OperandDisagrees(t.operands,
                        <<BitVecType(t.types[1].width), t.types[1],
                          BitVecType(t.types[1].shape[1])>>)

InputStepFails(t) == t.id.k # "int" \/ Len(t.types) < 1

ConcatStepFails(t) ==
    \/ Len(t.operands) # 2
    \/ Len(t.types) < 3
    \/ OperandDisagrees(t.operands, <<t.types[1], t.types[2]>>)

\* C14: a parser that meets a failing parsing step returns failure and
\* registers nothing; a failed parse leaves the operations registered before
\* as they were, and a successful one only adds to them.
C14_AllOrNothing ==
    [][/\ ((\/ text' \in UnitWriteTexts /\ WriteStepFails(text')
            \/ text' \in UnitInputTexts /\ InputStepFails(text')
            \/ text' \in UnitConcatTexts /\ ConcatStepFails(text'))
               => parsed' = "failure")
       /\ (parsed' = "failure" => (op' = NoOp /\ unit' = unit))
       /\ (Len(unit') >= Len(unit) /\ SubSeq(unit', 1, Len(unit)) = unit)]_vars

C14_Witness ==
    /\ Len(unit) >= 1
    /\ parsed = "failure"
    /\ text \in UnitWriteTexts
    /\ Len(text.operands) = 3
    /\ text.types = <<ArrayType(4, 8)>>
    /\ text.operands[1] = BitVecType(1)

RECURSIVE AllDiags(_)
\* The errors of every operation of the unit, in order.
AllDiags(u) ==
    IF u = <<>> THEN <<>> ELSE verify(Head(u)).diags \o AllDiags(Tail(u))

\* C16: a lowering pass has started only on a unit whose verification has
\* completed with no error; a completed verification has visited every
\* operation and accumulated the errors of all of them, the unit is marked
\* failed when one of them failed, and a failed unit is never lowered.
C16_StagingOrder ==
    /\ [](/\ lowered # {} =>
              /\ stage = "verified"
              /\ \A i \in 1 .. Len(unit) : verify(unit[i]).ok
          /\ stage \in {"verified", "failed"} =>
              /\ vpc = Len(unit) + 1
              /\ unitDiags = AllDiags(unit)
              /\ (stage = "failed") <=> (\E i \in 1 .. Len(unit) : ~verify(unit[i]).ok)
          /\ stage = "failed" => lowered = {})
    /\ [][stage = "failed" => (stage' = "failed" /\ lowered' = {})]_vars

C16_Witness ==
    /\ stage = "failed"
    /\ Len(unit) = 2
    /\ ~verify(unit[1]).ok
    /\ ~verify(unit[2]).ok
    /\ Len(unitDiags) = 2
    /\ lowered = {}

====
